---- MODULE Spec2Model ----
(***************************************************************************)
(* askmyapi: the incremental multi-representation indexing pipeline.       *)
(*                                                                         *)
(*   - openapi_to_documents (ingestion.py): the Document Builder, a pure   *)
(*     function from a dereferenced OpenAPI mapping to a list of Documents.*)
(*   - setup_vectorstore (vectorstore.py): the Indexing Orchestrator, a    *)
(*     loop over the documents that fills a call-local Document Store, a   *)
(*     persistent vector index and three persistent cache files.           *)
(*   - main / launch_chat_interface: the process that calls the            *)
(*     orchestrator once at start-up and again from the UI handlers.       *)
(*                                                                         *)
(* Python values are tagged tuples, the tag first: <<"str", s>>,           *)
(* <<"bool", b>>, <<"none">>, <<"list", seq>>, <<"dict", seq of <<k,v>> >>. *)
(* A dict keeps its insertion order, as Python's does.  Strings that the   *)
(* code takes apart character by character (path and method keys: lower,   *)
(* upper, replace) are sequences of one-character strings.                 *)
(***************************************************************************)
EXTENDS Integers, Sequences, FiniteSets, TLC

(***************************************************************************)
(* Python values                                                           *)
(***************************************************************************)
Str(s) == <<"str", s>>
Bool(b) == <<"bool", b>>
None == <<"none">>
List(xs) == <<"list", xs>>
Dict(ps) == <<"dict", ps>>

isinstance_dict(v) == v[1] = "dict"

\* bool(v): Python truthiness, as used by `or`, `if tags`, `if s.get("url")`.
Truthy(v) ==
  CASE v[1] = "none" -> FALSE
    [] v[1] = "bool" -> v[2]
    [] v[1] = "str"  -> v[2] # ""
    [] v[1] = "list" -> v[2] # <<>>
    [] v[1] = "dict" -> v[2] # <<>>

\* a or b
Or(a, b) == IF Truthy(a) THEN a ELSE b

\* k in d
Has(d, k) == \E n \in 1..Len(d[2]) : d[2][n][1] = k

\* d.get(k, default)
Get(d, k, default) ==
  IF Has(d, k)
    THEN d[2][CHOOSE n \in 1..Len(d[2]) : d[2][n][1] = k][2]
    ELSE default

\* str(v), as an f-string formats a value
Format(v) ==
  CASE v[1] = "str"  -> v[2]
    [] v[1] = "none" -> "None"
    [] v[1] = "bool" -> IF v[2] THEN "True" ELSE "False"

RECURSIVE Cat(_)
\* "".join(parts)
Cat(parts) == IF parts = <<>> THEN "" ELSE Head(parts) \o Cat(Tail(parts))

RECURSIVE Join(_, _)
\* sep.join(parts)
Join(sep, parts) ==
  IF parts = <<>> THEN ""
  ELSE IF Len(parts) = 1 THEN Head(parts)
  ELSE Head(parts) \o sep \o Join(sep, Tail(parts))

RECURSIVE MapFormat(_)
MapFormat(vs) == IF vs = <<>> THEN <<>> ELSE <<Format(Head(vs))>> \o MapFormat(Tail(vs))

(***************************************************************************)
(* Character-level string methods, on sequences of one-character strings   *)
(***************************************************************************)
LowerChar(c) ==
  CASE c = "G" -> "g" [] c = "E" -> "e" [] c = "T" -> "t" [] c = "P" -> "p"
    [] c = "O" -> "o" [] c = "S" -> "s" [] c = "U" -> "u"
    [] OTHER -> c

UpperChar(c) ==
  CASE c = "g" -> "G" [] c = "e" -> "E" [] c = "t" -> "T" [] c = "p" -> "P"
    [] c = "o" -> "O" [] c = "s" -> "S" [] c = "u" -> "U" [] c = "x" -> "X"
    [] OTHER -> c

lower(cs) == [n \in 1..Len(cs) |-> LowerChar(cs[n])]
upper(cs) == [n \in 1..Len(cs) |-> UpperChar(cs[n])]
\* cs.replace(a, b) for one-character a
replace(cs, a, b) == [n \in 1..Len(cs) |-> IF cs[n] = a THEN b ELSE cs[n]]

(***************************************************************************)
(* json.dumps(obj, ensure_ascii=False, indent=2)                           *)
(* The strings of the model hold no character that JSON escapes.           *)
(***************************************************************************)
RECURSIVE Spaces(_)
Spaces(n) == IF n = 0 THEN "" ELSE " " \o Spaces(n - 1)

JsonIndent == 2

RECURSIVE json_dumps_at(_, _)
RECURSIVE json_items(_, _, _)

\* the items of a non-empty list or dict, one per line at nesting level lvl
json_items(items, lvl, keyed) ==
  IF items = <<>> THEN <<>>
  ELSE LET it == Head(items)
           line == IF keyed
                     THEN Spaces(JsonIndent * lvl) \o "\"" \o it[1] \o "\": "
                          \o json_dumps_at(it[2], lvl)
                     ELSE Spaces(JsonIndent * lvl) \o json_dumps_at(it, lvl)
       IN  <<line>> \o json_items(Tail(items), lvl, keyed)

json_dumps_at(v, lvl) ==
  CASE v[1] = "str"  -> "\"" \o v[2] \o "\""
    [] v[1] = "none" -> "null"
    [] v[1] = "bool" -> IF v[2] THEN "true" ELSE "false"
    [] v[1] = "list" ->
         IF v[2] = <<>> THEN "[]"
         ELSE "[\n" \o Join(",\n", json_items(v[2], lvl + 1, FALSE))
              \o "\n" \o Spaces(JsonIndent * lvl) \o "]"
    [] v[1] = "dict" ->
         IF v[2] = <<>> THEN "{}"
         ELSE "{\n" \o Join(",\n", json_items(v[2], lvl + 1, TRUE))
              \o "\n" \o Spaces(JsonIndent * lvl) \o "}"

json_dumps(v) == json_dumps_at(v, 0)

(***************************************************************************)
(* ingestion.py: the Document Builder                                      *)
(***************************************************************************)
_HTTP_METHODS ==
  { <<"g","e","t">>, <<"p","u","t">>, <<"p","o","s","t">>,
    <<"d","e","l","e","t","e">>, <<"o","p","t","i","o","n","s">>,
    <<"h","e","a","d">>, <<"p","a","t","c","h">>, <<"t","r","a","c","e">> }

\* a filter that knows only the scalar empties: v in (None, "")
InEmpties_NoContainers(v) == v \in {None, Str("")}

\* v in (None, "", [], {})
InEmpties(v) == v \in {None, Str(""), List(<<>>), Dict(<<>>)}

\* A Document: page_content and the metadata dict.
Document(content, metadata) == [page_content |-> content, metadata |-> metadata]

\* _doc(content, **meta): the keyword arguments in call order, empty values dropped
_doc(content, meta) ==
  Document(content, Dict(SelectSeq(meta, LAMBDA kv : ~InEmpties(kv[2]))))

\* base_urls = [s.get("url") for s in servers if isinstance(s, dict) and s.get("url")]
RECURSIVE BaseUrls(_)
BaseUrls(servers) ==
  IF servers = <<>> THEN <<>>
  ELSE LET s == Head(servers)
       IN  (IF isinstance_dict(s) /\ Truthy(Get(s, "url", None))
              THEN <<Get(s, "url", None)>> ELSE <<>>)
           \o BaseUrls(Tail(servers))

\* the synthesized id without its .replace("/", "_")
OpId_NoReplace(method, path, op) ==
  Or(Get(op, "operationId", None), Str(Cat(method \o <<"_">> \o path)))

\* op_id = op.get("operationId") or f"{method}_{path}".replace("/", "_")
OpId(method, path, op) ==
  Or(Get(op, "operationId", None),
     Str(Cat(replace(method \o <<"_">> \o path, "/", "_"))))

\* ---- Parent: operation
OperationDoc(method, path, op, base_urls, api_name, spec_hash) ==
  LET op_id == OpId(method, path, op)
      tags == Get(op, "tags", List(<<>>))
      summary == Get(op, "summary", Str(""))
      description == Get(op, "description", Str(""))
      parent_txt ==
        << "OPERATION: " \o Cat(upper(method)) \o " " \o Cat(path),
           "OPERATION_ID: " \o Format(op_id),
           "TAGS: " \o (IF Truthy(tags) THEN Join(", ", MapFormat(tags[2])) ELSE "N/A"),
           "SUMMARY: " \o Format(Or(summary, Str("N/A"))),
           "DESCRIPTION:",
           Format(Or(description, Str("N/A"))),
           "BASE_URLS: " \o Format(Or(Str(Join(", ", MapFormat(base_urls))), Str("N/A"))) >>
  IN  _doc(Join("\n", parent_txt),
           << <<"kind", Str("operation")>>,
              <<"api_name", api_name>>,
              <<"spec_hash", spec_hash>>,
              <<"method", Str(Cat(upper(method)))>>,
              <<"path", Str(Cat(path))>>,
              <<"operationId", op_id>>,
              <<"tags", tags>> >>)

\* ---- Children: parameters
ParameterDoc(method, path, op, p, api_name, spec_hash) ==
  LET name == Get(p, "name", None)
      loc == Get(p, "in", None)
      required == Get(p, "required", Bool(FALSE))
      desc == Get(p, "description", Str(""))
      schema == Get(p, "schema", Dict(<<>>))
  IN  _doc("PARAMETER\n"
           \o "for: " \o Cat(upper(method)) \o " " \o Cat(path) \o "\n"
           \o "name: " \o Format(name) \o "\n"
           \o "in: " \o Format(loc) \o "\n"
           \o "required: " \o Format(required) \o "\n"
           \o "description: " \o Format(desc) \o "\n"
           \o "schema: " \o json_dumps(schema),
           << <<"kind", Str("parameter")>>,
              <<"api_name", api_name>>,
              <<"spec_hash", spec_hash>>,
              <<"method", Str(Cat(upper(method)))>>,
              <<"path", Str(Cat(path))>>,
              <<"operationId", OpId(method, path, op)>>,
              <<"param_in", loc>>,
              <<"param_name", name>>,
              <<"required", required>> >>)

RECURSIVE ParameterDocs(_, _, _, _, _, _)
ParameterDocs(method, path, op, ps, api_name, spec_hash) ==
  IF ps = <<>> THEN <<>>
  ELSE <<ParameterDoc(method, path, op, Head(ps), api_name, spec_hash)>>
       \o ParameterDocs(method, path, op, Tail(ps), api_name, spec_hash)

\* a requestBody child only for a requestBody that is not empty:
\* `if op.get("requestBody")` in place of `if "requestBody" in op`
RequestBodyDocs_IfTruthy(method, path, op, api_name, spec_hash) ==
  LET rb == Get(op, "requestBody", None)
  IN  IF ~Truthy(rb) THEN <<>>
      ELSE << _doc("REQUEST BODY\n"
                   \o "for: " \o Cat(upper(method)) \o " " \o Cat(path) \o "\n"
                   \o "required: " \o Format(Get(rb, "required", Bool(FALSE))) \o "\n"
                   \o "content: " \o json_dumps(Get(rb, "content", Dict(<<>>))),
                   << <<"kind", Str("requestBody")>>,
                      <<"api_name", api_name>>,
                      <<"spec_hash", spec_hash>>,
                      <<"method", Str(Cat(upper(method)))>>,
                      <<"path", Str(Cat(path))>>,
                      <<"operationId", OpId(method, path, op)>> >>) >>

\* ---- Child: requestBody
RequestBodyDocs(method, path, op, api_name, spec_hash) ==
  IF ~Has(op, "requestBody") THEN <<>>
  ELSE LET rb == Or(Get(op, "requestBody", None), Dict(<<>>))
           content == Get(rb, "content", Dict(<<>>))
       IN  << _doc("REQUEST BODY\n"
                   \o "for: " \o Cat(upper(method)) \o " " \o Cat(path) \o "\n"
                   \o "required: " \o Format(Get(rb, "required", Bool(FALSE))) \o "\n"
                   \o "content: " \o json_dumps(content),
                   << <<"kind", Str("requestBody")>>,
                      <<"api_name", api_name>>,
                      <<"spec_hash", spec_hash>>,
                      <<"method", Str(Cat(upper(method)))>>,
                      <<"path", Str(Cat(path))>>,
                      <<"operationId", OpId(method, path, op)>> >>) >>

\* ---- Children: responses per status
RECURSIVE ResponseDocs(_, _, _, _, _, _)
ResponseDocs(method, path, op, rs, api_name, spec_hash) ==
  IF rs = <<>> THEN <<>>
  ELSE LET status == Head(rs)[1]
           resp == Head(rs)[2]
           rest == ResponseDocs(method, path, op, Tail(rs), api_name, spec_hash)
       IN  IF ~isinstance_dict(resp) THEN rest
           ELSE LET desc == Get(resp, "description", Str(""))
                    content == Get(resp, "content", Dict(<<>>))
                IN  << _doc("RESPONSE\n"
                            \o "for: " \o Cat(upper(method)) \o " " \o Cat(path) \o "\n"
                            \o "status: " \o status \o "\n"
                            \o "description: " \o Format(desc) \o "\n"
                            \o "content: " \o json_dumps(content),
                            << <<"kind", Str("response")>>,
                               <<"api_name", api_name>>,
                               <<"spec_hash", spec_hash>>,
                               <<"method", Str(Cat(upper(method)))>>,
                               <<"path", Str(Cat(path))>>,
                               <<"operationId", OpId(method, path, op)>>,
                               <<"status_code", Str(status)>> >>) >> \o rest

\* a filter that takes every key under a path for a method
Accepted_AnyKey(method, op) == isinstance_dict(op)

\* not (method.lower() not in _HTTP_METHODS or not isinstance(op, dict))
Accepted(method, op) == lower(method) \in _HTTP_METHODS /\ isinstance_dict(op)

\* the body of the loop over item.items(), for one (method, op)
MethodDocs(method, path, op, base_urls, api_name, spec_hash) ==
  IF ~Accepted(method, op) THEN <<>>
  ELSE <<OperationDoc(method, path, op, base_urls, api_name, spec_hash)>>
       \o ParameterDocs(method, path, op,
                        Or(Get(op, "parameters", List(<<>>)), List(<<>>))[2],
                        api_name, spec_hash)
       \o RequestBodyDocs(method, path, op, api_name, spec_hash)
       \o ResponseDocs(method, path, op,
                       Or(Get(op, "responses", None), Dict(<<>>))[2],
                       api_name, spec_hash)

RECURSIVE ItemDocs(_, _, _, _, _)
ItemDocs(path, methods, base_urls, api_name, spec_hash) ==
  IF methods = <<>> THEN <<>>
  ELSE MethodDocs(Head(methods)[1], path, Head(methods)[2], base_urls, api_name, spec_hash)
       \o ItemDocs(path, Tail(methods), base_urls, api_name, spec_hash)

RECURSIVE PathDocs(_, _, _, _)
PathDocs(paths, base_urls, api_name, spec_hash) ==
  IF paths = <<>> THEN <<>>
  ELSE LET path == Head(paths)[1]
           item == Head(paths)[2]
       IN  (IF ~isinstance_dict(item) THEN <<>>
            ELSE ItemDocs(path, item[2], base_urls, api_name, spec_hash))
           \o PathDocs(Tail(paths), base_urls, api_name, spec_hash)

\* ---- Components: schemas
RECURSIVE SchemaDocs(_, _, _)
SchemaDocs(schemas, api_name, spec_hash) ==
  IF schemas = <<>> THEN <<>>
  ELSE LET name == Head(schemas)[1]
           schema == Head(schemas)[2]
           title == Get(schema, "title", Str(name))
           desc == Get(schema, "description", Str(""))
       IN  << _doc("SCHEMA\n"
                   \o "name: " \o name \o "\n"
                   \o "title: " \o Format(title) \o "\n"
                   \o "description:\n" \o Format(desc) \o "\n"
                   \o "schema_json:\n" \o json_dumps(schema),
                   << <<"kind", Str("schema")>>,
                      <<"api_name", api_name>>,
                      <<"spec_hash", spec_hash>>,
                      <<"schema_name", Str(name)>> >>) >>
           \o SchemaDocs(Tail(schemas), api_name, spec_hash)

\* a builder that puts the schema documents first
openapi_to_documents_SchemasFirst(spec, api_name, spec_hash) ==
  LET servers == Get(spec, "servers", List(<<>>))
      base_urls == BaseUrls(servers[2])
      paths == Or(Get(spec, "paths", Dict(<<>>)), Dict(<<>>))
      schemas == Or(Get(Or(Get(spec, "components", Dict(<<>>)), Dict(<<>>)),
                        "schemas", Dict(<<>>)),
                    Dict(<<>>))
  IN  SchemaDocs(schemas[2], api_name, spec_hash)
      \o PathDocs(paths[2], base_urls, api_name, spec_hash)

openapi_to_documents(spec, api_name, spec_hash) ==
  LET servers == Get(spec, "servers", List(<<>>))
      base_urls == BaseUrls(servers[2])
      paths == Or(Get(spec, "paths", Dict(<<>>)), Dict(<<>>))
      schemas == Or(Get(Or(Get(spec, "components", Dict(<<>>)), Dict(<<>>)),
                        "schemas", Dict(<<>>)),
                    Dict(<<>>))
  IN  PathDocs(paths[2], base_urls, api_name, spec_hash)
      \o SchemaDocs(schemas[2], api_name, spec_hash)


(***************************************************************************)
(* vectorstore.py: identity of a document and of its representations       *)
(***************************************************************************)
\* hashlib.sha1(content.encode("utf-8")).hexdigest()[:12], tabulated for the
\* contents the model hashes: the real digests of the real contents.
Sha1Table ==
  <<
    <<"SCHEMA\nname: Pet\ntitle: Pet\ndescription:\n\nschema_json:\n{\n  \"type\": \"object\",\n  \"title\": \"Pet\"\n}",
      "580daf387278">>,
    <<"SCHEMA\nname: Pet\ntitle: Pet\ndescription:\n\nschema_json:\n{\n  \"title\": \"Pet\",\n  \"type\": \"object\"\n}",
      "a41755fb4cba">>,
    <<"SCHEMA\nname: Pet\ntitle: Pet\ndescription:\nd\nschema_json:\n{\n  \"type\": \"object\",\n  \"description\": \"d\",\n  \"properties\": {\n    \"id\": {\n      \"type\": \"string\"\n    }\n  }\n}",
      "ff196e021de1">>,
    <<"SCHEMA\nname: Pet\ntitle: Pet\ndescription:\nd\nschema_json:\n{\n  \"properties\": {\n    \"id\": {\n      \"type\": \"string\"\n    }\n  },\n  \"description\": \"d\",\n  \"type\": \"object\"\n}",
      "92fac2f87537">>,
    <<"SCHEMA\nname: Pet\ntitle: Pet\ndescription:\n\nschema_json:\n{}",
      "47369a147d23">>,
    <<"SCHEMA\nname: Err\ntitle: Pet\ndescription:\n\nschema_json:\n{\n  \"type\": \"object\",\n  \"title\": \"Pet\"\n}",
      "9f31f72157e6">>,
    <<"SCHEMA\nname: Err\ntitle: Pet\ndescription:\n\nschema_json:\n{\n  \"title\": \"Pet\",\n  \"type\": \"object\"\n}",
      "4d94e68e354a">>,
    <<"SCHEMA\nname: Err\ntitle: Err\ndescription:\nd\nschema_json:\n{\n  \"type\": \"object\",\n  \"description\": \"d\",\n  \"properties\": {\n    \"id\": {\n      \"type\": \"string\"\n    }\n  }\n}",
      "4ed00d1fc641">>,
    <<"SCHEMA\nname: Err\ntitle: Err\ndescription:\nd\nschema_json:\n{\n  \"properties\": {\n    \"id\": {\n      \"type\": \"string\"\n    }\n  },\n  \"description\": \"d\",\n  \"type\": \"object\"\n}",
      "5a0dc76a716a">>,
    <<"SCHEMA\nname: Err\ntitle: Err\ndescription:\n\nschema_json:\n{}",
      "842fde3abf6d">>,
    <<"PARAMETER\nfor: GET /pets\nname: q\nin: query\nrequired: False\ndescription: \nschema: {\n  \"type\": \"string\",\n  \"title\": \"q\"\n}",
      "342bf8e219fc">>,
    <<"PARAMETER\nfor: GET /pets\nname: q\nin: query\nrequired: False\ndescription: \nschema: {\n  \"title\": \"q\",\n  \"type\": \"string\"\n}",
      "16207e277e2d">>,
    <<"PARAMETER\nfor: GET /u\nname: q\nin: query\nrequired: False\ndescription: \nschema: {\n  \"type\": \"string\",\n  \"title\": \"q\"\n}",
      "c2c1bae2e5c1">>,
    <<"PARAMETER\nfor: GET /u\nname: q\nin: query\nrequired: False\ndescription: \nschema: {\n  \"title\": \"q\",\n  \"type\": \"string\"\n}",
      "ac4b34b7e3e6">>,
    <<"n1",
      "40b3eab63f3f">>,
    <<"n2",
      "40243476fcaa">>
  >>

sha1_hex12(content) ==
  Sha1Table[CHOOSE n \in 1..Len(Sha1Table) : Sha1Table[n][1] = content][2]

\* stable = op_id or sha1(page_content)[:12]
Stable(doc) ==
  LET op_id == Get(doc.metadata, "operationId", None)
  IN  IF Truthy(op_id) THEN Format(op_id) ELSE sha1_hex12(doc.page_content)

\* a base_id without the ordinal: f"{kind}::{stable}"
BaseId_NoOrdinal(doc, i) ==
  Format(Get(doc.metadata, "kind", Str("doc"))) \o "::" \o Stable(doc)

\* base_id = f"{doc.metadata.get('kind','doc')}::{stable}::{i}", i from enumerate
BaseId(doc, i) ==
  Format(Get(doc.metadata, "kind", Str("doc"))) \o "::" \o Stable(doc)
    \o "::" \o ToString(i)

\* child_id = f"{base_id}:{kind}"
ChildId(base_id, kind) == base_id \o ":" \o kind

\* rows in another order
RepKinds_HydeFirst == <<"hyde", "summary", "example">>

\* the (kind, cache) rows of the inner loop, in order
RepKinds == <<"summary", "hyde", "example">>
NumKinds == Len(RepKinds)
KindSet == {RepKinds[n] : n \in 1..NumKinds}

\* {**a, **b}: the keys of a in order, values overridden by b, then b's new keys
DictMerge(a, b) ==
  LET kept == [n \in 1..Len(a) |-> IF Has(Dict(b), a[n][1])
                                     THEN <<a[n][1], Get(Dict(b), a[n][1], None)>>
                                     ELSE a[n]]
      new == SelectSeq(b, LAMBDA kv : ~Has(Dict(a), kv[1]))
  IN  Dict(kept \o new)

\* metadatas=[{"doc_id": base_id, "kind": kind, **doc.metadata}]
EntryMetadata(base_id, kind, doc) ==
  DictMerge(<< <<"doc_id", Str(base_id)>>, <<"kind", Str(kind)>> >>, doc.metadata[2])

\* a str -> value mapping (a Python dict read and written by key only)
EmptyMap == <<>>
Put(m, key, v) == [x \in DOMAIN m \cup {key} |-> IF x = key THEN v ELSE m[x]]


(***************************************************************************)
(* Inputs: OpenAPI mappings, each a content in one of its key orders       *)
(***************************************************************************)
RECURSIVE Reverse(_)
Reverse(xs) == IF xs = <<>> THEN <<>> ELSE Reverse(Tail(xs)) \o <<Head(xs)>>

\* the entries of a mapping in source order, or in the opposite order
Ord(entries, flip) == IF flip THEN Reverse(entries) ELSE entries

Orders ==
  [paths : BOOLEAN, methods : BOOLEAN, responses : BOOLEAN,
   pschema : BOOLEAN, schemas : BOOLEAN, skeys : BOOLEAN]

SourceOrder ==
  [paths |-> FALSE, methods |-> FALSE, responses |-> FALSE,
   pschema |-> FALSE, schemas |-> FALSE, skeys |-> FALSE]

PETS == <<"/", "p", "e", "t", "s">>
USERS == <<"/", "u">>
GET == <<"g", "e", "t">>
POST == <<"P", "O", "S", "T">>

ParamQ(o) ==
  Dict(<< <<"name", Str("q")>>, <<"in", Str("query")>>, <<"required", Bool(FALSE)>>,
          <<"schema", Dict(Ord(<< <<"type", Str("string")>>, <<"title", Str("q")>> >>,
                               o.pschema))>> >>)

ParamId ==
  Dict(<< <<"name", Str("id")>>, <<"in", Str("path")>>, <<"required", Bool(TRUE)>> >>)

BodyJson ==
  Dict(<< <<"required", Bool(TRUE)>>,
          <<"content", Dict(<< <<"application/json",
                                 Dict(<< <<"schema", Dict(<< <<"type", Str("object")>> >>)>> >>)>> >>)>> >>)

OpVariants == {"bare", "tagless", "full", "colons", "loose"}

Operation(variant, o) ==
  CASE variant = "bare" -> Dict(<<>>)
    [] variant = "tagless" ->
         Dict(<< <<"tags", List(<<>>)>>,
                 <<"parameters", List(<<ParamQ(o)>>)>> >>)
    [] variant = "full" ->
         Dict(<< <<"operationId", Str("getPets")>>,
                 <<"tags", List(<<Str("pets")>>)>>,
                 <<"summary", Str("List")>>,
                 <<"parameters", List(<<ParamId, ParamId>>)>>,
                 <<"requestBody", BodyJson>>,
                 <<"responses",
                   Dict(Ord(<< <<"200", Dict(<< <<"description", Str("ok")>> >>)>>,
                               <<"404", Dict(<< <<"description", Str("")>> >>)>> >>,
                            o.responses))>> >>)
    [] variant = "colons" ->
         Dict(<< <<"operationId", Str("a::b")>>,
                 <<"responses",
                   Dict(<< <<"200", Dict(<< <<"description", Str("ok")>> >>)>> >>)>> >>)
    [] variant = "loose" ->
         Dict(<< <<"requestBody", None>>,
                 <<"responses",
                   Dict(Ord(<< <<"200", Dict(<< <<"description", Str("ok")>> >>)>>,
                               <<"default", None>> >>,
                            o.responses))>> >>)

SchemaPet(o) ==
  Dict(Ord(<< <<"type", Str("object")>>, <<"title", Str("Pet")>> >>, o.skeys))

SchemaErr(o) ==
  Dict(Ord(<< <<"type", Str("object")>>, <<"description", Str("d")>>,
              <<"properties", Dict(<< <<"id", Dict(<< <<"type", Str("string")>> >>)>> >>)>> >>,
           o.skeys))

Contents ==
  [a : OpVariants, b : {"none", "bare", "colons"}, u : {"none", "tagless"},
   sch : {"none", "one", "two"}, bad : BOOLEAN]

\* entries that are not operations: a key that is no method name, a method
\* whose value is no mapping; and a path whose item is no mapping
XKEY == <<"x">>
PUT == <<"p", "u", "t">>
XPATH == <<"/", "x">>
BadEntries ==
  << <<XKEY, Dict(<< <<"summary", Str("List")>> >>)>>, <<PUT, None>> >>
BadPaths == << <<XPATH, Str("item")>> >>

\* the specification with content c, its mappings written in the order o
MkSpec(c, o) ==
  LET petsItem == Dict(Ord((IF c.bad THEN BadEntries ELSE <<>>)
                           \o << <<GET, Operation(c.a, o)>> >>
                           \o (IF c.b = "none" THEN <<>>
                               ELSE << <<POST, Operation(c.b, o)>> >>),
                           o.methods))
      paths == Dict(Ord((IF c.bad THEN BadPaths ELSE <<>>)
                        \o << <<PETS, petsItem>> >>
                        \o (IF c.u = "none" THEN <<>>
                            ELSE << <<USERS, Dict(<< <<GET, Operation(c.u, o)>> >>)>> >>),
                        o.paths))
      schemas == Dict(Ord(<< <<"Pet", SchemaPet(o)>> >>
                          \o (IF c.sch = "two" THEN << <<"Err", SchemaErr(o)>> >> ELSE <<>>),
                          o.schemas))
  IN  Dict(<< <<"paths", paths>> >>
           \o (IF c.sch = "none" THEN <<>>
               ELSE << <<"components", Dict(<< <<"schemas", schemas>> >>)>> >>))

\* The scope of the model: api_name (the slug of the title) and spec_hash (12 hex
\* characters of the sha256 of the file with its keys sorted, so the same for
\* every key order of one content).
ApiName == Str("petstore")
SpecHash == Str("0123456789ab")

\* the arguments openapi_to_documents(spec, api_name: str, spec_hash: str) is
\* given: those of main, and an empty string in either place
MainScope == [api_name |-> ApiName, spec_hash |-> SpecHash]
Scopes ==
  { MainScope,
    [api_name |-> Str(""), spec_hash |-> SpecHash],
    [api_name |-> ApiName, spec_hash |-> Str("")] }


(***************************************************************************)
(* The program: main() calls setup_vectorstore once at start-up, then the  *)
(* UI handlers call it again for every note; the process can be killed at  *)
(* any point and launched again over the same persistent files.            *)
(***************************************************************************)
MaxCalls == 3
\* how often the environment misbehaves in one behaviour: a generation that
\* raises (once or on every retry), a generation that returns an empty text,
\* a call cut short (add_texts raising, the process killed inside a call)
MaxFaults == 1

\* handler slots; the start-up call runs alone, in the first
Threads == {"h1", "h2"}
MainThread == "h1"

\* __main__.py: the documents of the specification file, which may be rewritten
\* in another key order between two launches (same spec_hash, same scope)
MainContent ==
  [a |-> "bare", b |-> "none", u |-> "none", sch |-> "one", bad |-> FALSE]
MainOrders == {SourceOrder, [SourceOrder EXCEPT !.skeys = TRUE]}
MainDocLists ==
  {openapi_to_documents(MkSpec(MainContent, o), ApiName, SpecHash) : o \in MainOrders}

\* interface.py: texts handed to add_text_to_vectorstore, as character sequences
NoteTexts == { <<"n", "1">>, <<" ">> }
max_learn_chars == 50000

_truncate_if_needed(text) ==
  IF Len(text) > max_learn_chars THEN SubSeq(text, 1, max_learn_chars) ELSE text

\* not text.strip()
IsBlank(text) == \A n \in 1..Len(text) : text[n] \in {" ", "\n", "\t"}

NoteDoc(text, source) ==
  Document(Cat(text), Dict(<< <<"source", Str(source)>>, <<"kind", Str("note")>> >>))

\* what llm.invoke can return (the content of the message)
LlmTexts == {"", "t"}

\* @retry(..., stop=stop_after_attempt(3))
MaxAttempts == 3
\* a ceiling that is off by one: it stops after the attempt that follows
StopAfterAttempt_Late(n) == n > MaxAttempts
StopAfterAttempt(n) == n >= MaxAttempts

VARIABLES
  phase,          \* "down", "startup" (main before the UI), "serving" (UI up)
  chainDocstore,  \* the docstore of the retriever main() hands to the chat chain
  index,          \* the Chroma collection of the scope: rows [id, text, metadata]
  cacheFile,      \* the three cache files of the scope, by representation kind
  run,            \* per handler slot: the frame of its setup_vectorstore call
  status,         \* per handler slot: what add_text_to_vectorstore returned
  hist,           \* per handler slot: what its current or last call did
  last,           \* the call that ended most recently
  genCount,       \* per child_id: texts the generation capability has returned
  calls,          \* calls of main() and of add_text_to_vectorstore so far
  faults          \* how often the environment has misbehaved so far

orchVars ==
  <<phase, chainDocstore, index, cacheFile, run, status, hist, last, genCount,
    calls, faults>>

\* The builder and the identity assignment on their own, applied to a
\* specification written in two key orders (or to a document list as given).
VARIABLES
  bpc,            \* "off", "spec" (nothing built yet), "built", "identified"
  given,          \* the input: the two writings a, b of one specification
  built,          \* the document lists a, b
  ids,            \* per list: the base_id and child_ids assigned so far
  scope           \* the api_name and spec_hash arguments of the builder

\* _get_all_ids on its own, over a collection that holds `stored` ids (the
\* ids 1..stored, in the order the collection returns them)
VARIABLES
  ppc,            \* "off", "paging" (in the while loop), "returned"
  stored,         \* how many ids the collection holds
  pids,           \* ids: the set gathered so far
  offset,         \* offset
  requests        \* the get calls made: the offset asked and how many ids came

pageVars == <<ppc, stored, pids, offset, requests>>

\* setup_vectorstore with its stores under their names: the directory of cache
\* files and the Chroma directory, shared by every scope
VARIABLES
  fs,             \* the files of CACHE_DIR: path -> mapping
  db,             \* the collections of CHROMA_DIR: collection name -> rows
  srun,           \* the call: its pc, its api_name and spec_hash, its locals
  touched,        \* the paths and collection names the call has read or written
  sruns           \* how many calls have been made

storeVars == <<fs, db, srun, touched, sruns>>

\* handle_chat_input and the conversation memory of the chain
VARIABLES
  cpc,            \* "off", "idle", "invoking" (inside rag_chain.invoke)
  memory,         \* memory.chat_memory.messages: [role, content] in order
  user_input,     \* the argument of the call under way
  reply,          \* what the last call returned
  turns           \* how many calls have been made

chatVars == <<cpc, memory, user_input, reply, turns>>

\* the state of the parts that are run on their own
buildVars == <<bpc, given, built, ids, scope, pageVars, storeVars, chatVars>>

NoFile == [exists |-> FALSE, valid |-> TRUE, data |-> EmptyMap]
TornFile == [exists |-> TRUE, valid |-> FALSE, data |-> EmptyMap]
\* a dump that writes an empty mapping
FileOf_Empty(data) == [exists |-> TRUE, valid |-> TRUE, data |-> EmptyMap]

FileOf(data) == [exists |-> TRUE, valid |-> TRUE, data |-> data]

NoFrame ==
  [pc |-> "idle", documents |-> <<>>, i |-> 0, k |-> 1,
   cache |-> [kn \in KindSet |-> EmptyMap], existing_ids |-> {},
   docstore |-> EmptyMap, text |-> "", attempts |-> 0, err |-> "none"]

NoLast ==
  [docs |-> <<>>, outcome |-> "none", cause |-> "none", writes |-> {},
   flushed |-> {}]

NoHist ==
  [startFiles |-> [kn \in KindSet |-> NoFile],
   startCache |-> [kn \in KindSet |-> EmptyMap],
   prev |-> NoLast, gens |-> <<>>, writes |-> <<>>, puts |-> {}, flushed |-> {},
   steps |-> <<>>]

\* one step of the loop, for the record: the operation, the index i of the
\* document and the kind of the representation ("" for the docstore write)
Event(op, f, kind) == [op |-> op, i |-> f.i, kind |-> kind]

Ids(log) == {log[n].id : n \in 1..Len(log)}

\* what is known of the call of slot t when it ends
Summary(t, outcome, cause) ==
  [docs |-> run[t].documents, outcome |-> outcome, cause |-> cause,
   writes |-> Ids(hist[t].writes), flushed |-> hist[t].flushed]

OrchInit ==
  /\ phase = "down"
  /\ chainDocstore = EmptyMap
  /\ index = {}
  /\ cacheFile = [kn \in KindSet |-> NoFile]
  /\ run = [t \in Threads |-> NoFrame]
  /\ status = [t \in Threads |-> ""]
  /\ hist = [t \in Threads |-> NoHist]
  /\ last = NoLast
  /\ genCount = EmptyMap
  /\ calls = 0
  /\ faults = 0

\* setup_vectorstore is entered: docstore = InMemoryByteStore(), nothing read yet
Enter(t, docs) ==
  /\ run' = [run EXCEPT ![t] = [NoFrame EXCEPT !.pc = "load", !.documents = docs]]
  /\ hist' = [hist EXCEPT ![t] = [NoHist EXCEPT !.startFiles = cacheFile, !.prev = last]]

\* main(): build the documents and call setup_vectorstore
Launch ==
  /\ phase = "down"
  /\ calls < MaxCalls
  /\ \E docs \in MainDocLists : Enter(MainThread, docs)
  /\ phase' = "startup"
  /\ calls' = calls + 1
  /\ UNCHANGED <<buildVars, chainDocstore, index, cacheFile, status, last, genCount,
                 faults>>

\* add_text_to_vectorstore(text, source)
UiIndex(t) ==
  /\ phase = "serving"
  /\ run[t].pc = "idle"
  /\ calls < MaxCalls
  /\ calls' = calls + 1
  /\ \E raw \in NoteTexts :
       LET text == _truncate_if_needed(raw)
       IN  IF IsBlank(text)
             THEN /\ status' = [status EXCEPT ![t] = "No content to index."]
                  /\ UNCHANGED <<run, hist>>
             ELSE /\ Enter(t, <<NoteDoc(text, "pasted_text")>>)
                  /\ status' = [status EXCEPT ![t] = ""]
  /\ UNCHANGED <<buildVars, phase, chainDocstore, index, cacheFile, last, genCount,
                 faults>>

\* an exception leaves setup_vectorstore: its frame, the docstore and the
\* in-memory caches with it, is gone; only the exception is left
Raise(t, cause) ==
  /\ run' = [run EXCEPT ![t] = [NoFrame EXCEPT !.pc = "raised", !.err = cause,
                                               !.attempts = run[t].attempts]]
  /\ last' = Summary(t, "aborted", cause)

\* summaries = _load_json(...), questions = ..., examples = ...: one file per step
LoadJson(t) ==
  LET f == run[t]
      kn == RepKinds[f.k]
      file == cacheFile[kn]
  IN  /\ f.pc = "load"
      /\ IF file.exists /\ ~file.valid
           THEN /\ Raise(t, "json")
                /\ UNCHANGED hist
           ELSE /\ run' = [run EXCEPT ![t] =
                             [f EXCEPT !.cache[kn] = file.data,
                                       !.k = IF f.k < NumKinds THEN f.k + 1 ELSE 1,
                                       !.pc = IF f.k < NumKinds THEN "load" ELSE "ids"]]
                /\ hist' = [hist EXCEPT ![t].startCache[kn] = file.data]
                /\ UNCHANGED last
      /\ UNCHANGED <<buildVars, phase, chainDocstore, index, cacheFile, status, genCount,
                     calls, faults>>

\* a write that adds a row whatever the collection holds
Upsert_Insert(collection, id, entry) ==
  collection \cup {[id |-> id, text |-> entry.text, metadata |-> entry.metadata]}

\* vectorstore.add_texts([text], ids=[id], metadatas=[...]): Chroma replaces the
\* row of that id if there is one, and adds a row if not
Upsert(collection, id, entry) ==
  {r \in collection : r.id # id}
    \cup {[id |-> id, text |-> entry.text, metadata |-> entry.metadata]}

\* the ids of the collection, and a row of the collection under an id
IndexIds == {r.id : r \in index}
IndexAt(id) == CHOOSE r \in index : r.id = id

\* an enumeration that finds nothing
_get_all_ids_Nothing(collection) == {}

\* _get_all_ids(vectorstore): every id the collection holds
_get_all_ids(collection) == {r.id : r \in collection}

\* existing_ids = _get_all_ids(vectorstore)
GetAllIds(t) ==
  LET f == run[t]
  IN  /\ f.pc = "ids"
      /\ run' = [run EXCEPT ![t] =
                   [f EXCEPT !.existing_ids = _get_all_ids(index),
                             !.i = 0,
                             !.pc = IF f.documents = <<>> THEN "dump" ELSE "doc"]]
      /\ UNCHANGED <<buildVars, phase, chainDocstore, index, cacheFile, status, hist, last,
                     genCount, calls, faults>>

\* the document the loop is at, and its base_id
CurDoc(f) == f.documents[f.i + 1]
CurBase(f) == BaseId(CurDoc(f), f.i)
CurKind(f) == RepKinds[f.k]
CurChild(f) == ChildId(CurBase(f), CurKind(f))

\* docstore.mset([(base_id, doc)])
StoreDoc(t) ==
  LET f == run[t]
  IN  /\ f.pc = "doc"
      /\ run' = [run EXCEPT ![t] =
                   [f EXCEPT !.docstore = Put(f.docstore, CurBase(f), CurDoc(f)),
                             !.k = 1, !.pc = "rep"]]
      /\ hist' = [hist EXCEPT ![t].puts = @ \cup {CurBase(f)},
                               ![t].steps = Append(@, Event("store", f, ""))]
      /\ UNCHANGED <<buildVars, phase, chainDocstore, index, cacheFile, status, last,
                     genCount, calls, faults>>

\* the frame after one representation is dealt with: the next kind, the next
\* document, or the end of the loop
Advance(f) ==
  IF f.k < NumKinds THEN [f EXCEPT !.k = f.k + 1, !.pc = "rep"]
  ELSE IF f.i + 1 < Len(f.documents) THEN [f EXCEPT !.i = f.i + 1, !.k = 1, !.pc = "doc"]
  ELSE [f EXCEPT !.i = f.i + 1, !.k = 1, !.pc = "dump"]

\* cache.get(base_id) or ...: the left operand decides when it is truthy
CacheHit(cache, base_id) == base_id \in DOMAIN cache /\ cache[base_id] # ""

\* a check that never skips
AlreadyIndexed_Never(child_id, existing_ids) == FALSE

\* if child_id in existing_ids: continue
AlreadyIndexed(child_id, existing_ids) == child_id \in existing_ids

\* if child_id in existing_ids: continue; text = cache.get(base_id) or gen(...)
CheckChild(t) ==
  LET f == run[t]
  IN  /\ f.pc = "rep"
      /\ run' = [run EXCEPT ![t] =
                   IF AlreadyIndexed(CurChild(f), f.existing_ids)
                     THEN Advance([f EXCEPT !.attempts = 0])
                   ELSE IF CacheHit(f.cache[CurKind(f)], CurBase(f))
                     THEN [f EXCEPT !.text = f.cache[CurKind(f)][CurBase(f)],
                                    !.attempts = 0, !.pc = "add"]
                     ELSE [f EXCEPT !.attempts = 0, !.pc = "gen"]]
      /\ UNCHANGED <<buildVars, phase, chainDocstore, index, cacheFile, status, hist, last,
                     genCount, calls, faults>>

\* _llm: llm.invoke returns; its content is the text
LlmReturns(t) ==
  LET f == run[t]
  IN  /\ f.pc = "gen"
      /\ \E txt \in LlmTexts :
           /\ txt = "" => faults < MaxFaults
           /\ faults' = IF txt = "" THEN faults + 1 ELSE faults
           /\ run' = [run EXCEPT ![t] =
                        [f EXCEPT !.text = txt, !.attempts = f.attempts + 1, !.pc = "add"]]
           /\ hist' = [hist EXCEPT ![t].gens =
                         Append(@, [id |-> CurChild(f), text |-> txt]),
                                   ![t].steps = Append(@, Event("gen", f, CurKind(f)))]
      /\ genCount' = Put(genCount, CurChild(f),
                         IF CurChild(f) \in DOMAIN genCount
                           THEN genCount[CurChild(f)] + 1 ELSE 1)
      /\ UNCHANGED <<buildVars, phase, chainDocstore, index, cacheFile, status, last,
                     calls>>

\* _llm: llm.invoke raises; tenacity tries again or gives up
LlmRaises(t) ==
  LET f == run[t]
  IN  /\ f.pc = "gen"
      /\ f.attempts = 0 => faults < MaxFaults
      /\ faults' = IF f.attempts = 0 THEN faults + 1 ELSE faults
      /\ IF StopAfterAttempt(f.attempts + 1)
           THEN /\ run' = [run EXCEPT ![t] =
                             [NoFrame EXCEPT !.pc = "raised", !.err = "generation",
                                             !.attempts = f.attempts + 1]]
                /\ last' = Summary(t, "aborted", "generation")
           ELSE /\ run' = [run EXCEPT ![t] = [f EXCEPT !.attempts = f.attempts + 1]]
                /\ UNCHANGED last
      /\ UNCHANGED <<buildVars, phase, chainDocstore, index, cacheFile, status, hist,
                     genCount, calls>>

\* cache[base_id] = text; vectorstore.add_texts([text], ids=[child_id], ...):
\* Chroma upserts by id
AddTexts(t) ==
  LET f == run[t]
      written == [f EXCEPT !.cache[CurKind(f)] = Put(@, CurBase(f), f.text)]
  IN  /\ f.pc = "add"
      /\ index' = Upsert(index, CurChild(f),
                         [text |-> f.text,
                          metadata |-> EntryMetadata(CurBase(f), CurKind(f), CurDoc(f))])
      /\ run' = [run EXCEPT ![t] = Advance(written)]
      /\ hist' = [hist EXCEPT ![t].writes =
                    Append(@, [id |-> CurChild(f), text |-> f.text]),
                              ![t].steps = Append(@, Event("write", f, CurKind(f)))]
      /\ UNCHANGED <<buildVars, phase, chainDocstore, cacheFile, status, last, genCount,
                     calls, faults>>

\* vectorstore.add_texts raises (embedding or store failure)
AddTextsRaises(t) ==
  /\ run[t].pc = "add"
  /\ faults < MaxFaults
  /\ faults' = faults + 1
  /\ Raise(t, "add_texts")
  /\ UNCHANGED <<buildVars, phase, chainDocstore, index, cacheFile, status, hist, genCount,
                 calls>>

\* _dump_json(path, cache): one file per step, the whole mapping written over it
DumpJson(t) ==
  LET f == run[t]
      kn == RepKinds[f.k]
  IN  /\ f.pc = "dump"
      /\ cacheFile' = [cacheFile EXCEPT ![kn] = FileOf(f.cache[kn])]
      /\ run' = [run EXCEPT ![t] =
                   [f EXCEPT !.k = IF f.k < NumKinds THEN f.k + 1 ELSE 1,
                             !.pc = IF f.k < NumKinds THEN "dump" ELSE "done"]]
      /\ hist' = [hist EXCEPT ![t].flushed = @ \cup {kn}]
      /\ UNCHANGED <<buildVars, phase, chainDocstore, index, status, last, genCount,
                     calls, faults>>

\* return retriever, docstore: main() keeps them for the chat chain and starts
\* the UI; add_text_to_vectorstore drops them and reports success
Return(t) ==
  /\ run[t].pc = "done"
  /\ last' = Summary(t, "completed", "none")
  /\ run' = [run EXCEPT ![t] = NoFrame]
  /\ IF phase = "startup"
       THEN /\ phase' = "serving"
            /\ chainDocstore' = run[t].docstore
            /\ UNCHANGED status
       ELSE /\ status' = [status EXCEPT ![t] = "Content indexed successfully."]
            /\ UNCHANGED <<phase, chainDocstore>>
  /\ hist' = [hist EXCEPT ![t] = NoHist]
  /\ UNCHANGED <<buildVars, index, cacheFile, genCount, calls, faults>>

\* the exception reaches the caller: main() dies of it, the UI handler logs it
\* and reports the failure
Unwind(t) ==
  /\ run[t].pc = "raised"
  /\ IF phase = "startup"
       THEN /\ phase' = "down"
            /\ run' = [u \in Threads |-> NoFrame]
            /\ chainDocstore' = EmptyMap
            /\ UNCHANGED status
       ELSE /\ status' = [status EXCEPT ![t] = "Indexing failed"]
            /\ run' = [run EXCEPT ![t] = NoFrame]
            /\ UNCHANGED <<phase, chainDocstore>>
  /\ hist' = IF phase = "startup" THEN [u \in Threads |-> NoHist]
                                   ELSE [hist EXCEPT ![t] = NoHist]
  /\ UNCHANGED <<buildVars, index, cacheFile, last, genCount, calls, faults>>

InCall(t) == run[t].pc \notin {"idle", "raised"}

\* the process stops (exit, kill, power loss): everything in memory is gone.
\* A call it cuts short is aborted; one cut inside _dump_json leaves that file
\* truncated (open(path, "w") has emptied it).
Kill ==
  /\ phase # "down"
  /\ phase' = "down"
  /\ chainDocstore' = EmptyMap
  /\ run' = [u \in Threads |-> NoFrame]
  /\ \/ /\ \A t \in Threads : ~InCall(t)
        /\ UNCHANGED <<last, cacheFile, faults>>
     \/ \E t \in Threads :
          /\ run[t].pc = "done"
          /\ last' = Summary(t, "completed", "none")
          /\ UNCHANGED <<cacheFile, faults>>
     \/ \E t \in Threads :
          /\ InCall(t)
          /\ run[t].pc # "done"
          /\ faults < MaxFaults
          /\ faults' = faults + 1
          /\ last' = Summary(t, "aborted", "killed")
          /\ \/ UNCHANGED cacheFile
             \/ /\ run[t].pc = "dump"
                /\ cacheFile' = [cacheFile EXCEPT ![RepKinds[run[t].k]] = TornFile]
  /\ hist' = [u \in Threads |-> NoHist]
  /\ UNCHANGED <<buildVars, index, status, genCount, calls>>

Step(t) ==
  \/ UiIndex(t)
  \/ LoadJson(t)
  \/ GetAllIds(t)
  \/ StoreDoc(t)
  \/ CheckChild(t)
  \/ LlmReturns(t)
  \/ LlmRaises(t)
  \/ AddTexts(t)
  \/ AddTextsRaises(t)
  \/ DumpJson(t)
  \/ Return(t)
  \/ Unwind(t)

(***************************************************************************)
(* The environment: the persistent directory of the index can be lost      *)
(* (deleted, moved, restored from an older backup) while the process is    *)
(* down; the cache files are kept apart from it, in another directory.     *)
(***************************************************************************)
\* Chroma(persist_directory=CHROMA_DIR, ...) opens whatever the directory holds
PurgeIndex ==
  /\ phase = "down"
  /\ index # {}
  /\ index' = {}
  /\ UNCHANGED <<buildVars, phase, chainDocstore, cacheFile, run, status, hist, last,
                 genCount, calls, faults>>


(***************************************************************************)
(* The builder and the identity assignment, step by step                   *)
(***************************************************************************)
MaxDocs == 2

Sides == {"a", "b"}
NoLists == [x \in Sides |-> <<>>]

\* documents handed to setup_vectorstore as they are: a note of the UI, and
\* documents whose kind and operationId hold the separators of the id syntax
RawPool ==
  { NoteDoc(<<"n", "1">>, "pasted_text"),
    Document("n1", Dict(<< <<"kind", Str("parameter")>>, <<"operationId", Str("a")>> >>)),
    Document("n1", Dict(<< <<"kind", Str("parameter")>>, <<"operationId", Str("a::1")>> >>)),
    Document("n1", Dict(<< <<"kind", Str("parameter::a")>>, <<"operationId", Str("1")>> >>)),
    Document("n2", Dict(<<>>)) }

DocLists == UNION {[1..n -> RawPool] : n \in 1..MaxDocs}

PageOff ==
  /\ ppc = "off"
  /\ stored = 0
  /\ pids = {}
  /\ offset = 0
  /\ requests = <<>>

\* no call, nothing on disk
NoScopedRun ==
  [pc |-> "off", api_name |-> "", spec_hash |-> "", k |-> 1,
   cache |-> [kn \in KindSet |-> EmptyMap], existing_ids |-> {}]

StoresOff ==
  /\ fs = EmptyMap
  /\ db = EmptyMap
  /\ srun = NoScopedRun
  /\ touched = {}
  /\ sruns = 0

ChatOff ==
  /\ cpc = "off"
  /\ memory = <<>>
  /\ user_input = ""
  /\ reply = ""
  /\ turns = 0

BuildOff ==
  /\ PageOff
  /\ StoresOff
  /\ ChatOff
  /\ bpc = "off"
  /\ scope = MainScope
  /\ given = NoLists
  /\ built = NoLists
  /\ ids = NoLists

InitBuild ==
  /\ OrchInit
  /\ PageOff
  /\ StoresOff
  /\ ChatOff
  /\ ids = NoLists
  /\ \/ /\ bpc = "spec"
        /\ \E c \in Contents, o \in Orders :
             given = [a |-> MkSpec(c, SourceOrder), b |-> MkSpec(c, o)]
        /\ built = NoLists
        \* the key order and the arguments are varied one at a time
        /\ scope \in IF given.a = given.b THEN Scopes ELSE {MainScope}
     \/ /\ bpc = "built"
        /\ given = NoLists
        /\ scope = MainScope
        /\ \E docs \in DocLists : built = [x \in Sides |-> docs]

\* documents = openapi_to_documents(spec, api_name=..., spec_hash=...)
Build ==
  /\ bpc = "spec"
  /\ built' = [x \in Sides |->
                 openapi_to_documents(given[x], scope.api_name, scope.spec_hash)]
  /\ bpc' = "built"
  /\ UNCHANGED <<given, ids, scope, pageVars, storeVars, chatVars, orchVars>>

\* what one turn of `for i, doc in enumerate(documents)` names: the base_id
\* and, per kind, the child_id
Identity(doc, i) ==
  [base_id |-> BaseId(doc, i),
   child_ids |-> [kn \in KindSet |-> ChildId(BaseId(doc, i), kn)]]

\* one turn of the loop, in each of the two lists
AssignIdentity ==
  /\ bpc = "built"
  /\ ids' = [x \in Sides |->
               IF Len(ids[x]) < Len(built[x])
                 THEN Append(ids[x], Identity(built[x][Len(ids[x]) + 1], Len(ids[x])))
                 ELSE ids[x]]
  /\ bpc' = IF \A x \in Sides : Len(ids[x]) + 1 >= Len(built[x])
              THEN "identified" ELSE "built"
  /\ UNCHANGED <<given, built, scope, pageVars, storeVars, chatVars, orchVars>>


(***************************************************************************)
(* _get_all_ids, page by page                                              *)
(***************************************************************************)
\* how many full pages the collections hold at most, and how far around each
\* multiple of the page limit their sizes go
MaxPages == 2
Slack == 8

\* limit = 5000
limit == 5000

Sizes ==
  {n \in {p * limit + d : p \in 0..MaxPages, d \in (0 - Slack)..Slack} : n >= 0}

\* collection.get(ids=None, where=None, limit=limit, offset=offset)["ids"] of a
\* collection that holds the ids 1..n: at most lim ids, after the first off
CollectionGet(n, lim, off) == {id \in (off + 1)..(off + lim) : id <= n}

\* an offset that goes back by one
NextOffset_OneShort(off, batch_ids) == off + Cardinality(batch_ids) - 1

\* offset += len(batch_ids)
NextOffset(off, batch_ids) == off + Cardinality(batch_ids)

InitPage ==
  /\ OrchInit
  /\ bpc = "off" /\ given = NoLists /\ built = NoLists /\ ids = NoLists
  /\ scope = MainScope
  /\ StoresOff
  /\ ChatOff
  /\ ppc = "paging"
  /\ stored \in Sizes
  /\ pids = {}
  /\ offset = 0
  /\ requests = <<>>

\* one turn of `while True`: get a page; stop on an empty page; take its ids,
\* move the offset, stop on a short page
GetPage ==
  LET batch_ids == CollectionGet(stored, limit, offset)
  IN  /\ ppc = "paging"
      /\ requests' = Append(requests, [offset |-> offset, n |-> Cardinality(batch_ids)])
      /\ IF batch_ids = {}
           THEN /\ ppc' = "returned"
                /\ UNCHANGED <<pids, offset>>
           ELSE /\ pids' = pids \cup batch_ids
                /\ offset' = NextOffset(offset, batch_ids)
                /\ ppc' = IF Cardinality(batch_ids) < limit THEN "returned" ELSE "paging"
      /\ UNCHANGED <<stored, bpc, given, built, ids, scope, storeVars, chatVars, orchVars>>


(***************************************************************************)
(* setup_vectorstore in several scopes: the names of its stores            *)
(***************************************************************************)
MaxScopedRuns == 2

\* slugs of titles, one of which ends like a fingerprint, and 12-hex
\* fingerprints
ApiNames == {"pet", "pet_0123456789ab"}
SpecHashes == {"0123456789ab", "ab0123456789"}

\* a name without the fingerprint
CollectionName_ApiOnly(api_name, spec_hash) == "openapi_vectors_" \o api_name

\* COLLECTION = f"openapi_vectors_{api_name}_{spec_hash}"
CollectionName(api_name, spec_hash) ==
  "openapi_vectors_" \o api_name \o "_" \o spec_hash

\* os.path.join(CACHE_DIR, f"{COLLECTION}_summaries.json"), _questions, _examples
CacheSuffix(kn) ==
  CASE kn = "summary" -> "_summaries.json"
    [] kn = "hyde" -> "_questions.json"
    [] kn = "example" -> "_examples.json"

CachePath(api_name, spec_hash, kn) ==
  "cache/" \o CollectionName(api_name, spec_hash) \o CacheSuffix(kn)

\* the documents of the call
ScopedDoc == NoteDoc(<<"n", "1">>, "pasted_text")

\* the rows of a collection of the directory (Chroma(...) makes it if missing)
RowsIn(dir, name) == IF name \in DOMAIN dir THEN dir[name] ELSE {}

InitStores ==
  /\ OrchInit
  /\ PageOff
  /\ bpc = "off" /\ given = NoLists /\ built = NoLists /\ ids = NoLists
  /\ scope = MainScope
  /\ StoresOff
  /\ ChatOff

\* setup_vectorstore(documents, llm, api_name=..., spec_hash=...) is entered
ScopedEnter ==
  /\ srun.pc = "off"
  /\ sruns < MaxScopedRuns
  /\ sruns' = sruns + 1
  /\ \E a \in ApiNames, h \in SpecHashes :
       srun' = [NoScopedRun EXCEPT !.pc = "load", !.api_name = a, !.spec_hash = h]
  /\ touched' = {}
  /\ UNCHANGED <<fs, db>>

\* _load_json(path) of one of the three paths
ScopedLoad ==
  LET kn == RepKinds[srun.k]
      path == CachePath(srun.api_name, srun.spec_hash, kn)
  IN  /\ srun.pc = "load"
      /\ srun' = [srun EXCEPT !.cache[kn] = IF path \in DOMAIN fs THEN fs[path] ELSE EmptyMap,
                              !.k = IF srun.k < NumKinds THEN srun.k + 1 ELSE 1,
                              !.pc = IF srun.k < NumKinds THEN "load" ELSE "open"]
      /\ touched' = touched \cup {path}
      /\ UNCHANGED <<fs, db, sruns>>

\* Chroma(persist_directory=CHROMA_DIR, collection_name=COLLECTION, ...) and
\* existing_ids = _get_all_ids(vectorstore)
ScopedOpen ==
  LET name == CollectionName(srun.api_name, srun.spec_hash)
  IN  /\ srun.pc = "open"
      /\ db' = Put(db, name, RowsIn(db, name))
      /\ srun' = [srun EXCEPT !.existing_ids = _get_all_ids(RowsIn(db, name)),
                              !.k = 1, !.pc = "rep"]
      /\ touched' = touched \cup {name}
      /\ UNCHANGED <<fs, sruns>>

\* one turn of the loop over the kinds, for the one document of the call
ScopedAdd ==
  LET kn == RepKinds[srun.k]
      name == CollectionName(srun.api_name, srun.spec_hash)
      base_id == BaseId(ScopedDoc, 0)
      child_id == ChildId(base_id, kn)
      text == IF CacheHit(srun.cache[kn], base_id) THEN srun.cache[kn][base_id] ELSE "t"
      next == [srun EXCEPT !.k = IF srun.k < NumKinds THEN srun.k + 1 ELSE 1,
                           !.pc = IF srun.k < NumKinds THEN "rep" ELSE "dump"]
  IN  /\ srun.pc = "rep"
      /\ IF AlreadyIndexed(child_id, srun.existing_ids)
           THEN /\ srun' = next
                /\ UNCHANGED <<db, touched>>
           ELSE /\ srun' = [next EXCEPT !.cache[kn] = Put(@, base_id, text)]
                /\ db' = Put(db, name,
                             Upsert(RowsIn(db, name), child_id,
                                    [text |-> text,
                                     metadata |-> EntryMetadata(base_id, kn, ScopedDoc)]))
                /\ touched' = touched \cup {name}
      /\ UNCHANGED <<fs, sruns>>

\* _dump_json(path, cache) of one of the three paths; after the third the call
\* returns
ScopedDump ==
  LET kn == RepKinds[srun.k]
      path == CachePath(srun.api_name, srun.spec_hash, kn)
  IN  /\ srun.pc = "dump"
      /\ fs' = Put(fs, path, srun.cache[kn])
      /\ srun' = [srun EXCEPT !.k = IF srun.k < NumKinds THEN srun.k + 1 ELSE 1,
                              !.pc = IF srun.k < NumKinds THEN "dump" ELSE "off"]
      /\ touched' = touched \cup {path}
      /\ UNCHANGED <<db, sruns>>

ScopedStep ==
  /\ \/ ScopedEnter
     \/ ScopedLoad
     \/ ScopedOpen
     \/ ScopedAdd
     \/ ScopedDump
  /\ UNCHANGED <<bpc, given, built, ids, scope, pageVars, chatVars, orchVars>>


(***************************************************************************)
(* interface.py: handle_chat_input and the conversation memory             *)
(***************************************************************************)
MaxTurns == 3

\* what the user types
UserInputs == {"q1", "q2"}

\* what rag_chain.invoke returns: a dict with some of the keys answer, result,
\* output_text, a value that is no dict, or None
Responses ==
  { Dict(<< <<"answer", Str("a")>> >>),
    Dict(<< <<"answer", Str("")>>, <<"result", Str("r")>> >>),
    Dict(<< <<"context", List(<<>>)>> >>),
    Str("s"),
    None }

\* response.get("answer") or response.get("result")
\*   or response.get("output_text") or "" for a dict;
\* str(response) if response is not None else "" otherwise
AnswerOf(response) ==
  IF isinstance_dict(response)
    THEN Format(Or(Get(response, "answer", None),
                   Or(Get(response, "result", None),
                      Or(Get(response, "output_text", None), Str("")))))
    ELSE IF response # None THEN Format(response) ELSE ""

InitChat ==
  /\ OrchInit
  /\ PageOff
  /\ StoresOff
  /\ bpc = "off" /\ given = NoLists /\ built = NoLists /\ ids = NoLists
  /\ scope = MainScope
  /\ cpc = "idle"
  /\ memory = <<>>
  /\ user_input = ""
  /\ reply = ""
  /\ turns = 0

\* handle_chat_input(user_input): memory.chat_memory.add_user_message(user_input),
\* then rag_chain.invoke is entered
ChatAsk ==
  /\ cpc = "idle"
  /\ turns < MaxTurns
  /\ turns' = turns + 1
  /\ \E q \in UserInputs :
       /\ user_input' = q
       /\ memory' = Append(memory, [role |-> "user", content |-> q])
  /\ cpc' = "invoking"
  /\ UNCHANGED reply

\* rag_chain.invoke returns: memory.chat_memory.add_ai_message(answer or ""),
\* return answer or "No answer produced."
ChainReturns ==
  /\ cpc = "invoking"
  /\ \E response \in Responses :
       LET answer == AnswerOf(response)
       IN  /\ memory' = Append(memory, [role |-> "ai", content |-> answer])
           /\ reply' = IF answer # "" THEN answer ELSE "No answer produced."
  /\ cpc' = "idle"
  /\ UNCHANGED <<user_input, turns>>

\* rag_chain.invoke raises: except Exception logs it and returns the message
ChainRaises ==
  /\ cpc = "invoking"
  /\ reply' = "Unexpected error during chat handling."
  /\ cpc' = "idle"
  /\ UNCHANGED <<memory, user_input, turns>>

ChatStep ==
  /\ \/ ChatAsk
     \/ ChainReturns
     \/ ChainRaises
  /\ UNCHANGED <<bpc, given, built, ids, scope, pageVars, storeVars, orchVars>>


(***************************************************************************)
(* Specifications                                                          *)
(***************************************************************************)
Init == OrchInit /\ BuildOff

Next ==
  \/ Launch
  \/ Step(MainThread)
  \/ Kill

vars == <<orchVars, buildVars>>

\* one call at a time: start-up, then the UI handlers one after the other
Spec == Init /\ [][Next]_vars

NextEnv ==
  \/ Next
  \/ PurgeIndex

\* the same, with the index directory lost between two launches
SpecEnv == Init /\ [][NextEnv]_vars

NextBuild ==
  \/ Build
  \/ AssignIdentity

\* the pure part: build the documents, name them
SpecBuild == InitBuild /\ [][NextBuild]_vars

\* the UI is up after a start-up over a specification with no operation and
\* no schema: no document, nothing in the index, three cache files holding {}
Serving ==
  /\ phase = "serving"
  /\ chainDocstore = EmptyMap
  /\ index = {}
  /\ cacheFile = [kn \in KindSet |-> FileOf(EmptyMap)]
  /\ run = [t \in Threads |-> NoFrame]
  /\ status = [t \in Threads |-> ""]
  /\ hist = [t \in Threads |-> NoHist]
  /\ last = [NoLast EXCEPT !.outcome = "completed", !.flushed = KindSet]
  /\ genCount = EmptyMap
  /\ calls = 1
  /\ faults = 0

InitConc == Serving /\ BuildOff

NextPage == GetPage

\* the enumeration of one collection; the loop goes on as long as it can
SpecPage == InitPage /\ [][NextPage]_vars /\ WF_vars(NextPage)

NextStores == ScopedStep

\* calls of setup_vectorstore one after the other, each in a scope of its own
SpecStores == InitStores /\ [][NextStores]_vars

NextChat == ChatStep

\* the chat handler, one call after the other
SpecChat == InitChat /\ [][NextChat]_vars

NextConc == \E t \in Threads : Step(t)

\* two UI handlers at once: Gradio runs each event in a worker of its own, and
\* add_text_to_vectorstore takes no lock
SpecConc == InitConc /\ [][NextConc]_vars


(***************************************************************************)
(* Properties of the orchestrator                                          *)
(***************************************************************************)
\* the base_ids and the child_ids a call over docs names
BaseIdsOf(docs) == {BaseId(docs[n], n - 1) : n \in 1..Len(docs)}
ChildIdsOf(docs) ==
  {ChildId(BaseId(docs[n], n - 1), kn) : n \in 1..Len(docs), kn \in KindSet}

\* the index entries whose doc_id is one of base_ids
EntriesOf(base_ids) ==
  {c \in IndexIds : Format(Get(IndexAt(c).metadata, "doc_id", None)) \in base_ids}

\* the writes of log under id
WritesOf(log, id) == SelectSeq(log, LAMBDA w : w.id = id)

\* slot t runs over the list the call before it ran over, which ended as outcome
RunsAfter(t, outcome) ==
  /\ InCall(t)
  /\ hist[t].prev.outcome = outcome
  /\ hist[t].prev.docs = run[t].documents

\* slot t is past the reads that open a call (cache files, existence set)
PastReads(t) == InCall(t) /\ run[t].pc \notin {"load", "ids"}

\* C1: a run over the list that the run before it completed makes no
\* generation call and no index write, and the index holds exactly one entry
\* for each (document, kind) of the list.
C1_IdempotentReindex ==
  \A t \in Threads :
    RunsAfter(t, "completed") =>
      /\ hist[t].gens = <<>>
      /\ hist[t].writes = <<>>
      /\ ChildIdsOf(run[t].documents) \subseteq IndexIds
      /\ Cardinality(EntriesOf(BaseIdsOf(run[t].documents)))
           = NumKinds * Len(run[t].documents)

\* C1 happens: a second run has reached its end, after a first that wrote
C1_Witness ==
  \E t \in Threads :
    /\ RunsAfter(t, "completed")
    /\ run[t].pc = "done"
    /\ hist[t].prev.writes # {}

\* C2, as the claim states it: a representation with a cache entry at the
\* start of the run and no index entry is never generated in the run, and a
\* run that completes has written it exactly once, with the cached text,
\* whatever the cached text is.
C2_CacheThenIndex ==
  \A t \in Threads :
    PastReads(t) =>
      \A n \in 1..Len(run[t].documents), kn \in KindSet :
        LET base == BaseId(run[t].documents[n], n - 1)
            child == ChildId(base, kn)
        IN  (base \in DOMAIN hist[t].startCache[kn] /\ child \notin run[t].existing_ids)
              => /\ child \notin Ids(hist[t].gens)
                 /\ run[t].pc = "done" =>
                      WritesOf(hist[t].writes, child)
                        = << [id |-> child, text |-> hist[t].startCache[kn][base]] >>

\* what a run after an aborted run over the same list does not do again:
\* nothing the aborted run wrote, nothing the index held at its own start
ResumesCleanly(t) ==
  /\ Ids(hist[t].gens) \cap hist[t].prev.writes = {}
  /\ Ids(hist[t].writes) \cap hist[t].prev.writes = {}
  /\ Ids(hist[t].gens) \cup Ids(hist[t].writes)
       \subseteq ChildIdsOf(run[t].documents) \ run[t].existing_ids
  /\ Cardinality(Ids(hist[t].writes)) = Len(hist[t].writes)

GeneratesOnlyUncached(t) ==
  \A n \in 1..Len(run[t].documents), kn \in KindSet :
    LET base == BaseId(run[t].documents[n], n - 1)
    IN  ChildId(base, kn) \in Ids(hist[t].gens)
          => base \notin DOMAIN hist[t].startCache[kn]

\* C4 (amended): within one run the generation capability returns a text at
\* most once for each (base_id, kind), and only for a pair with no cache
\* entry and no index entry at the start of the run; a pair whose index
\* write completed in an earlier run is never generated again.
C4_OncePerRun ==
  \A t \in Threads :
    PastReads(t) =>
      /\ Cardinality(Ids(hist[t].gens)) = Len(hist[t].gens)
      /\ GeneratesOnlyUncached(t)
      /\ Ids(hist[t].gens) \cap run[t].existing_ids = {}
      /\ Ids(hist[t].gens) \cap IndexIds \subseteq Ids(hist[t].writes)

\* C4 happens: a pair is generated a second time, in the run after the one
\* that lost its text
C4_Witness ==
  \E t \in Threads :
    /\ PastReads(t)
    /\ \E c \in Ids(hist[t].gens) : genCount[c] = 2

\* C4, as the claim states it: over all the runs, a text is returned at most
\* once for each (base_id, kind), and only in a run where the pair has no
\* cache entry.
C4_AsStated ==
  /\ \A c \in DOMAIN genCount : genCount[c] <= 1
  /\ \A t \in Threads : PastReads(t) => GeneratesOnlyUncached(t)

\* C5, as the claim states it: when a generation fails for good the call has
\* raised, and every Document Store write and every index write it made is
\* still in place, and the cache files are as they were at its start.
C5_FailureSemantics ==
  \A t \in Threads :
    (run[t].pc = "raised" /\ run[t].err = "generation") =>
      /\ hist[t].puts \subseteq (DOMAIN run[t].docstore \cup DOMAIN chainDocstore)
      /\ Ids(hist[t].writes) \subseteq IndexIds
      /\ cacheFile = hist[t].startFiles
      /\ hist[t].flushed = {}

\* C6: llm.invoke is called at most 3 times for one representation; a call
\* that returns ends the attempts, its text is the one written, and the run
\* goes on to the write; the call raises into the run only after 3 failures.
C6_RetryCeiling ==
  \A t \in Threads :
    /\ run[t].attempts <= 3
    /\ run[t].pc = "gen" => run[t].attempts < 3
    /\ (run[t].pc = "raised" /\ run[t].err = "generation") => run[t].attempts = 3
    /\ (run[t].pc = "add" /\ run[t].attempts > 0) =>
         /\ hist[t].gens # <<>>
         /\ hist[t].gens[Len(hist[t].gens)]
              = [id |-> CurChild(run[t]), text |-> run[t].text]

\* C6 happens: two attempts failed, the third returned
C6_Witness ==
  \E t \in Threads : run[t].pc = "add" /\ run[t].attempts = 3


(***************************************************************************)
(* Properties of the builder and of the identity assignment                *)
(***************************************************************************)
\* the lists are the builder's (not documents handed over as they are)
FromSpec == bpc \in {"built", "identified"} /\ given # NoLists

\* (kind, stable) of a document, as the orchestrator reads them
KindStable(doc) == <<Format(Get(doc.metadata, "kind", Str("doc"))), Stable(doc)>>

\* how often pair p occurs among the documents
Occurrences(docs, p) == Cardinality({n \in 1..Len(docs) : KindStable(docs[n]) = p})

\* the entries under the path items of a specification that are mappings, as
\* <<key, path, value>>
PathEntries(spec) ==
  LET paths == Get(spec, "paths", Dict(<<>>))[2]
  IN  UNION { IF paths[pi][2][1] = "dict"
                THEN { <<paths[pi][2][2][mi][1], paths[pi][1], paths[pi][2][2][mi][2]>> :
                         mi \in 1..Len(paths[pi][2][2]) }
                ELSE {} :
              pi \in 1..Len(paths) }

\* the eight method names, written out
Verbs == {"get", "put", "post", "delete", "options", "head", "patch", "trace"}

\* the operations a specification declares, as <<method, path, op>>: the
\* entries whose key is a method name in any case and whose value is a mapping
DeclaredOps(spec) ==
  {e \in PathEntries(spec) : Cat(lower(e[1])) \in Verbs /\ e[3][1] = "dict"}

\* doc is a document of operation o (same method, same path)
DocOfOp(doc, o) ==
  /\ Get(doc.metadata, "method", None) = Str(Cat(upper(o[1])))
  /\ Get(doc.metadata, "path", None) = Str(Cat(o[2]))

IsKind(doc, kind) == Get(doc.metadata, "kind", None) = Str(kind)

\* doc is a parameter document of an operation that declares no operationId
OrphanParameter(spec, doc) ==
  /\ IsKind(doc, "parameter")
  /\ \E o \in DeclaredOps(spec) : DocOfOp(doc, o) /\ ~Has(o[3], "operationId")

\* C7, as the claim states it: the two writings of one specification, which
\* differ only in the order of keys, yield the same multiset of (kind, stable).
C7_KeyOrderDeterminism ==
  FromSpec =>
    \A x \in Sides : \A n \in 1..Len(built[x]) :
      LET p == KindStable(built[x][n])
      IN  Occurrences(built.a, p) = Occurrences(built.b, p)

\* C8: in one list the base_ids are pairwise distinct, and so are the
\* child_ids, over all documents and kinds.
C8_IdentityUnique ==
  \A x \in Sides : \A m, n \in 1..Len(ids[x]) :
    /\ m # n => ids[x][m].base_id # ids[x][n].base_id
    /\ \A k1, k2 \in KindSet :
         (m # n \/ k1 # k2) => ids[x][m].child_ids[k1] # ids[x][n].child_ids[k2]

\* C8 happens: a list with two identical documents, and one with an
\* operationId that holds "::", have been named to the end
C8_Witness ==
  /\ bpc = "identified"
  /\ \E m, n \in 1..Len(built.a) : m # n /\ built.a[m] = built.a[n]
  /\ \E n \in 1..Len(built.b) :
       Get(built.b[n].metadata, "operationId", None) \in {Str("a::b"), Str("a::1")}

\* C9 (amended): a parameter document of an operation that declares no
\* operationId carries the synthesized one, method_path with "/" written "_",
\* and that is its stable component; the content hash is the stable component
\* only of documents with no operationId metadata (schemas, notes).
C9_SynthesizedId ==
  \A x \in Sides : \A n \in 1..Len(ids[x]) :
    LET doc == built[x][n]
    IN  /\ (given # NoLists /\ IsKind(doc, "parameter")) =>
             \A o \in DeclaredOps(given[x]) :
               (DocOfOp(doc, o) /\ ~Has(o[3], "operationId")) =>
                 ids[x][n].base_id
                   = "parameter::" \o Cat(o[1]) \o "_" \o Cat(replace(o[2], "/", "_"))
                       \o "::" \o ToString(n - 1)
        /\ ~Has(doc.metadata, "operationId") =>
             ids[x][n].base_id
               = Format(Get(doc.metadata, "kind", Str("doc"))) \o "::"
                   \o sha1_hex12(doc.page_content) \o "::" \o ToString(n - 1)

\* C9 happens: such a parameter document has been named
C9_Witness ==
  /\ given # NoLists
  /\ \E n \in 1..Len(ids.a) : OrphanParameter(given.a, built.a[n])

\* C9, as the claim states it: the stable component of such a parameter
\* document is the hash of its content.
C9_AsStated ==
  given # NoLists =>
    \A x \in Sides : \A n \in 1..Len(ids[x]) :
      OrphanParameter(given[x], built[x][n]) =>
        ids[x][n].base_id
          = "parameter::" \o sha1_hex12(built[x][n].page_content)
              \o "::" \o ToString(n - 1)

\* C10: no metadata value of a built document is None, "", [] or {}; an
\* operation with tags: [] gives an operation document with no tags key; a
\* parameter that is not required keeps required = False.
C10_MetadataCompaction ==
  FromSpec =>
    \A x \in Sides : \A n \in 1..Len(built[x]) :
      LET doc == built[x][n]
          md == doc.metadata[2]
      IN  /\ \A j \in 1..Len(md) :
               /\ md[j][2] # None
               /\ md[j][2] # Str("")
               /\ md[j][2] # List(<<>>)
               /\ md[j][2] # Dict(<<>>)
          /\ IsKind(doc, "operation") =>
               \A o \in DeclaredOps(given[x]) :
                 (DocOfOp(doc, o) /\ Get(o[3], "tags", None) = List(<<>>))
                   => ~Has(doc.metadata, "tags")
          /\ (IsKind(doc, "parameter")
              /\ Get(doc.metadata, "param_name", None) = Str("q"))
               => Get(doc.metadata, "required", None) = Bool(FALSE)

\* C10 happens: an operation with tags: [] and a parameter with
\* required: false have been built
C10_Witness ==
  /\ FromSpec
  /\ \E o \in DeclaredOps(given.a) : Get(o[3], "tags", None) = List(<<>>)
  /\ \E n \in 1..Len(built.a) :
       IsKind(built.a[n], "parameter")
         /\ Get(built.a[n].metadata, "param_name", None) = Str("q")

\* how many documents of a kind the list holds for operation o
CountOf(docs, o, kind) ==
  Cardinality({n \in 1..Len(docs) : IsKind(docs[n], kind) /\ DocOfOp(docs[n], o)})

\* the declared parameters and responses of an operation, the schemas of a
\* specification
ParametersOf(o) == Or(Get(o[3], "parameters", List(<<>>)), List(<<>>))[2]
ResponsesOf(o) == Or(Get(o[3], "responses", Dict(<<>>)), Dict(<<>>))[2]
SchemasOf(spec) ==
  Or(Get(Or(Get(spec, "components", Dict(<<>>)), Dict(<<>>)), "schemas", Dict(<<>>)),
     Dict(<<>>))[2]

\* the counts the responses do not enter: one operation document, one
\* parameter document per parameter, a requestBody document exactly when the
\* key is there, one schema document per component schema
CountsButResponses(spec, docs) ==
  /\ \A o \in DeclaredOps(spec) :
       /\ CountOf(docs, o, "operation") = 1
       /\ CountOf(docs, o, "parameter") = Len(ParametersOf(o))
       /\ CountOf(docs, o, "requestBody") = (IF Has(o[3], "requestBody") THEN 1 ELSE 0)
  /\ Cardinality({n \in 1..Len(docs) : IsKind(docs[n], "schema")}) = Len(SchemasOf(spec))
  /\ \A j \in 1..Len(SchemasOf(spec)) :
       Cardinality({n \in 1..Len(docs) :
                      /\ IsKind(docs[n], "schema")
                      /\ Get(docs[n].metadata, "schema_name", None)
                           = Str(SchemasOf(spec)[j][1])}) = 1

\* the response documents of operation o that carry status code st
ResponseDocsFor(docs, o, st) ==
  {n \in 1..Len(docs) :
     /\ IsKind(docs[n], "response")
     /\ DocOfOp(docs[n], o)
     /\ Get(docs[n].metadata, "status_code", None) = Str(st)}

OfSomeOperation(doc) == Has(doc.metadata, "method") \/ Has(doc.metadata, "path")

\* a specification without the entries that are not operations: the path
\* items that are mappings, and in them the entries DeclaredOps names
Stripped(spec) ==
  LET paths == Get(spec, "paths", Dict(<<>>))[2]
      keep(path, item) ==
        SelectSeq(item, LAMBDA kv : <<kv[1], path, kv[2]>> \in DeclaredOps(spec))
      items == SelectSeq(paths, LAMBDA pv : pv[2][1] = "dict")
      clean == [pi \in 1..Len(items) |->
                  <<items[pi][1], Dict(keep(items[pi][1], items[pi][2][2]))>>]
  IN  Dict([j \in 1..Len(spec[2]) |->
              IF spec[2][j][1] = "paths" THEN <<"paths", Dict(clean)>> ELSE spec[2][j]])

\* the build has ended, every accepted operation has its operation document,
\* and the list is the one the specification without its other entries gives
ToleratesTheRest(x) ==
  /\ \A o \in DeclaredOps(given[x]) : CountOf(built[x], o, "operation") = 1
  /\ built[x] = openapi_to_documents(Stripped(given[x]), scope.api_name, scope.spec_hash)

\* C12 (amended): a key under a path produces documents only if, in lower
\* case, it is one of the eight method names and its value is a mapping; path
\* items, keys and operations that are not produce nothing and stop nothing:
\* the documents are those of the specification without them.
C12_Tolerance ==
  FromSpec =>
    \A x \in Sides :
      /\ \A n \in 1..Len(built[x]) :
           OfSomeOperation(built[x][n]) =>
             \E o \in DeclaredOps(given[x]) : DocOfOp(built[x][n], o)
      /\ ToleratesTheRest(x)

\* C12 happens: a path item that is no mapping, a key that is no method name
\* and a method whose value is no mapping were in the specification built
C12_Witness ==
  /\ FromSpec
  /\ \E pi \in 1..Len(Get(given.a, "paths", Dict(<<>>))[2]) :
       Get(given.a, "paths", Dict(<<>>))[2][pi][2][1] # "dict"
  /\ \E e \in PathEntries(given.a) : Cat(lower(e[1])) \notin Verbs
  /\ \E e \in PathEntries(given.a) : Cat(lower(e[1])) \in Verbs /\ e[3][1] # "dict"
  /\ Len(built.a) > 0

\* C12, as the claim states it: the key is one of the eight names as they are
\* written, in lower case.
C12_AsStated ==
  FromSpec =>
    \A x \in Sides :
      /\ \A n \in 1..Len(built[x]) :
           OfSomeOperation(built[x][n]) =>
             \E e \in PathEntries(given[x]) :
               /\ Cat(e[1]) \in Verbs
               /\ e[3][1] = "dict"
               /\ DocOfOp(built[x][n], e)
      /\ ToleratesTheRest(x)

\* the kinds of document the builder makes
BuiltKinds == {"operation", "parameter", "requestBody", "response", "schema"}

KeysOf(file) == DOMAIN file.data

\* file keeps every key of old, and every non-empty text of old as it was
Extends(old, file) ==
  /\ KeysOf(old) \subseteq KeysOf(file)
  /\ \A key \in KeysOf(old) : old.data[key] # "" => file.data[key] = old.data[key]

\* C14: in no step of any sequence of complete or aborted runs does the vector
\* index lose an id, a cache file lose a key, or a cache entry with a
\* non-empty text get another text.
C14_Monotonic ==
  [][ /\ IndexIds \subseteq {r.id : r \in index'}
      /\ \A kn \in KindSet : Extends(cacheFile[kn], cacheFile'[kn]) ]_vars

\* the entry of a mapping under key, or nothing
EntryAt(m, key) == IF key \in DOMAIN m THEN <<m[key]>> ELSE <<>>

\* the run of slot t has left the representation of kind kn of its n-th
\* document alone: no generation, no index write, the cache entry as loaded,
\* and as loaded in the file once the run has written it
LeftAlone(t, n, kn) ==
  LET f == run[t]
      base_id == BaseId(f.documents[n], n - 1)
      child_id == ChildId(base_id, kn)
  IN  /\ child_id \notin Ids(hist[t].gens)
      /\ child_id \notin Ids(hist[t].writes)
      /\ EntryAt(f.cache[kn], base_id) = EntryAt(hist[t].startCache[kn], base_id)
      /\ kn \in hist[t].flushed =>
           EntryAt(cacheFile[kn].data, base_id) = EntryAt(hist[t].startCache[kn], base_id)

\* C15: a representation whose child_id is in the existence set read at the
\* start of the run gets no generation call and no index write in the run, and
\* its cache entry stays as it was loaded, present or absent, to the end of
\* the run; so an index entry without a cache entry stays without one.
C15_IndexPresenceWins ==
  \A t \in Threads : \A n \in 1..Len(run[t].documents) : \A kn \in KindSet :
    ChildId(BaseId(run[t].documents[n], n - 1), kn) \in run[t].existing_ids =>
      LeftAlone(t, n, kn)

\* C15 happens: a run has ended its flush with, in its existence set, a
\* child_id that had no cache entry at its start and one that had
C15_Witness ==
  \E t \in Threads :
    /\ run[t].pc = "done"
    /\ \E n \in 1..Len(run[t].documents), kn \in KindSet :
         /\ ChildId(BaseId(run[t].documents[n], n - 1), kn) \in run[t].existing_ids
         /\ BaseId(run[t].documents[n], n - 1) \notin DOMAIN hist[t].startCache[kn]
         /\ BaseId(run[t].documents[n], n - 1) \notin KeysOf(cacheFile[kn])
    /\ \E n \in 1..Len(run[t].documents), kn \in KindSet :
         /\ ChildId(BaseId(run[t].documents[n], n - 1), kn) \in run[t].existing_ids
         /\ BaseId(run[t].documents[n], n - 1) \in DOMAIN hist[t].startCache[kn]

\* the mapping a run starts from when the file is as given: an absent file
\* counts as an empty mapping
LoadedFrom(file) == IF file.exists THEN file.data ELSE EmptyMap

\* the base_ids of the documents of slot t whose representation of kind kn
\* the run has written to the index
WrittenBases(t, kn) ==
  {BaseId(run[t].documents[n], n - 1) : n \in
     {m \in 1..Len(run[t].documents) :
        ChildId(BaseId(run[t].documents[m], m - 1), kn) \in Ids(hist[t].writes)}}

\* the start mapping with the entries of the representations written
StartPlusWritten(t, kn) ==
  LET loaded == LoadedFrom(hist[t].startFiles[kn])
  IN  [key \in DOMAIN loaded \cup WrittenBases(t, kn) |->
         IF key \in WrittenBases(t, kn)
           THEN WritesOf(hist[t].writes, ChildId(key, kn))[1].text
           ELSE loaded[key]]

\* C16: when a run has completed, each cache file is a readable file that
\* holds the mapping found at the start of the run (empty if the file was
\* absent) with one entry per representation the run wrote to the index, and
\* the entry of each is the text the index holds under its child_id.
C16_FlushConsistency ==
  \A t \in Threads :
    run[t].pc = "done" =>
      \A kn \in KindSet :
        /\ cacheFile[kn].exists /\ cacheFile[kn].valid
        /\ cacheFile[kn].data = StartPlusWritten(t, kn)
        /\ \A key \in WrittenBases(t, kn) :
             /\ ChildId(key, kn) \in IndexIds
             /\ cacheFile[kn].data[key] = IndexAt(ChildId(key, kn)).text

\* C16 happens: a run that found entries in its cache files and wrote new
\* representations has completed
C16_Witness ==
  \E t \in Threads :
    /\ run[t].pc = "done"
    /\ \A kn \in KindSet :
         /\ hist[t].startFiles[kn].exists
         /\ KeysOf(hist[t].startFiles[kn]) # {}
         /\ WrittenBases(t, kn) # {}
         /\ KeysOf(hist[t].startFiles[kn]) \cap WrittenBases(t, kn) = {}

\* the place of a kind inside the block of one operation
BlockRank(doc) ==
  CASE IsKind(doc, "operation") -> 0
    [] IsKind(doc, "parameter") -> 1
    [] IsKind(doc, "requestBody") -> 2
    [] IsKind(doc, "response") -> 3
    [] OTHER -> 4

\* the position of the last operation document before position n (0 if none)
OperationBefore(docs, n) ==
  LET ops == {m \in 1..(n - 1) : IsKind(docs[m], "operation")}
  IN  IF ops = {} THEN 0 ELSE CHOOSE m \in ops : \A m2 \in ops : m2 <= m

\* docs[n] belongs to the same method and path as docs[m]
SameOperation(docs, m, n) ==
  /\ Get(docs[n].metadata, "method", None) = Get(docs[m].metadata, "method", None)
  /\ Get(docs[n].metadata, "path", None) = Get(docs[m].metadata, "path", None)

\* C17: in the list the builder returns, the documents of an operation stand
\* right after its operation document, parameters first, then the requestBody,
\* then the responses, and no other operation's document among them; every
\* schema document stands after every document of an operation.
C17_DocumentOrder ==
  FromSpec =>
    \A x \in Sides : \A n \in 1..Len(built[x]) :
      /\ BlockRank(built[x][n]) \in 1..3 =>
           /\ OperationBefore(built[x], n) # 0
           /\ SameOperation(built[x], OperationBefore(built[x], n), n)
           /\ BlockRank(built[x][n - 1]) <= BlockRank(built[x][n])
      /\ IsKind(built[x][n], "schema") =>
           \A m \in n..Len(built[x]) : IsKind(built[x][m], "schema")

\* C17 happens: a list with an operation that has parameters, a requestBody
\* and responses, another operation after it, and schema documents
C17_Witness ==
  /\ FromSpec
  /\ \E m, n \in 1..Len(built.a) :
       /\ m < n
       /\ IsKind(built.a[m], "operation")
       /\ IsKind(built.a[n], "operation")
       /\ \A k \in 1..3 : \E j \in (m + 1)..(n - 1) : BlockRank(built.a[j]) = k
  /\ \E n \in 1..Len(built.a) : IsKind(built.a[n], "schema")

\* where a step stands in the order the claim gives: the document, then the
\* docstore write before the kinds summary, hyde, example, then generation
\* before the index write
StepPlace(e) ==
  << e.i,
     CASE e.op = "store" -> 0
       [] e.kind = "summary" -> 1
       [] e.kind = "hyde" -> 2
       [] e.kind = "example" -> 3,
     IF e.op = "write" THEN 1 ELSE 0 >>

Before(p, q) ==
  \/ p[1] < q[1]
  \/ p[1] = q[1] /\ p[2] < q[2]
  \/ p[1] = q[1] /\ p[2] = q[2] /\ p[3] < q[3]

\* the docstore writes among the steps
StoreSteps(log) == SelectSeq(log, LAMBDA e : e.op = "store")

\* C18: the steps of a run come in the order of the list: the docstore write
\* of a document, then its representations as summary, hyde, example, each
\* generated before it is written, and only then the next document; so when a
\* generation or an index write happens the document is in the run's docstore,
\* and every index entry the run wrote names a doc_id that is a key of it.
C18_PipelineOrder ==
  \A t \in Threads :
    LET log == hist[t].steps
    IN  /\ \A a, b \in 1..Len(log) : a < b => Before(StepPlace(log[a]), StepPlace(log[b]))
        /\ \A a \in 1..Len(StoreSteps(log)) : StoreSteps(log)[a].i = a - 1
        /\ \A b \in 1..Len(log) :
             log[b].op # "store" =>
               \E a \in 1..(b - 1) : log[a].op = "store" /\ log[a].i = log[b].i
        /\ InCall(t) =>
             \A w \in Ids(hist[t].writes) :
               /\ w \in IndexIds
               /\ Format(Get(IndexAt(w).metadata, "doc_id", None)) \in DOMAIN run[t].docstore

\* C18 happens: a run has gone through two documents, generating and writing
\* the three representations of each
C18_Witness ==
  \E t \in Threads :
    /\ run[t].pc = "done"
    /\ \A i \in 0..1 : \A kn \in KindSet : \A op \in {"gen", "write"} :
         \E a \in 1..Len(hist[t].steps) :
           hist[t].steps[a] = [op |-> op, i |-> i, kind |-> kn]

\* the rows of the index under one id
RowsOf(id) == {r \in index : r.id = id}

\* C19: whatever the interleaving of two runs in one scope, the vector index
\* holds at most one entry per child_id. (That both runs can generate the same
\* representation, and that the last flush can drop an entry the other run
\* generated, is the state C19_Witness describes.)
C19_OneEntryPerChild == \A id \in IndexIds : Cardinality(RowsOf(id)) = 1

\* both runs have generated the representation child_id
BothGenerate(child_id) == \A t \in Threads : child_id \in Ids(hist[t].gens)

\* the flush of the other run has dropped from the cache file of kind kn the
\* entry of a representation that run t generated and flushed
FlushLost(t, kn) ==
  \E n \in 1..Len(run[t].documents) :
    /\ ChildId(BaseId(run[t].documents[n], n - 1), kn) \in Ids(hist[t].gens)
    /\ BaseId(run[t].documents[n], n - 1) \notin KeysOf(cacheFile[kn])

\* C19 happens: two runs interleaved have both ended their flush; both
\* generated and wrote one same representation, of which the index holds one
\* row, and a cache file lacks an entry that one of them generated
C19_Witness ==
  /\ \A t \in Threads : run[t].pc = "done"
  /\ \E id \in IndexIds :
       /\ BothGenerate(id)
       /\ \A t \in Threads : id \in Ids(hist[t].writes)
       /\ Cardinality(RowsOf(id)) = 1
  /\ \E t \in Threads, kn \in KindSet : FlushLost(t, kn)

\* C20: while the UI is up and no indexing call is under way, every entry of
\* the vector index has a doc_id that is a key of the Document Store the chat
\* chain's retriever holds, so every matched vector resolves to its document.
C20_BackResolution ==
  (phase = "serving" /\ \A t \in Threads : run[t].pc = "idle") =>
    \A r \in index : Format(Get(r.metadata, "doc_id", None)) \in DOMAIN chainDocstore


(***************************************************************************)
(* Properties of _get_all_ids                                              *)
(***************************************************************************)
\* how many ids the first k requests brought
RECURSIVE Received(_, _)
Received(log, k) == IF k = 0 THEN 0 ELSE Received(log, k - 1) + log[k].n

\* each request asks for the ids after those already received, so no page is
\* asked twice
AsksWhatIsMissing ==
  /\ \A k \in 1..Len(requests) : requests[k].offset = Received(requests, k - 1)
  /\ \A j, k \in 1..Len(requests) : j < k => requests[j].offset < requests[k].offset

\* C21: over a collection that does not change, whatever number of ids it
\* holds (none, fewer than a page, exactly one or two pages, more), the
\* enumeration ends, what it returns is the set of all the ids stored, and
\* each request carried the number of ids received so far as its offset.
C21_Pagination ==
  /\ [](ppc # "off" => AsksWhatIsMissing)
  /\ [](ppc = "returned" => pids = 1..stored)
  /\ (ppc = "paging") ~> (ppc = "returned")

\* C21 happens: a collection of exactly two pages has been enumerated, with a
\* third request that came back empty
C21_Witness ==
  /\ ppc = "returned"
  /\ stored = 2 * limit
  /\ Len(requests) = 3
  /\ requests[3].n = 0
  /\ pids = 1..stored


(***************************************************************************)
(* Properties of the names of the stores                                   *)
(***************************************************************************)
\* the scopes: pairs of an api_name and a 12-hex spec_hash
ScopePairs == ApiNames \X SpecHashes

\* the names the claim gives to the stores of a scope
NamedCollection(sc) == "openapi_vectors_" \o sc[1] \o "_" \o sc[2]
NamedFiles(sc) ==
  {"cache/" \o NamedCollection(sc) \o suffix :
     suffix \in {"_summaries.json", "_questions.json", "_examples.json"}}

\* the stores of scope sc are the same in both directories and file sets
SameStores(sc, db1, fs1, db2, fs2) ==
  /\ RowsIn(db1, NamedCollection(sc)) = RowsIn(db2, NamedCollection(sc))
  /\ NamedCollection(sc) \in DOMAIN db1 <=> NamedCollection(sc) \in DOMAIN db2
  /\ \A path \in NamedFiles(sc) :
       /\ path \in DOMAIN fs1 <=> path \in DOMAIN fs2
       /\ path \in DOMAIN fs1 => fs1[path] = fs2[path]

\* C22: at every step a call has read and written nothing but the collection
\* openapi_vectors_<api_name>_<spec_hash> and the three cache files named after
\* it; the collection and the files of every other scope are as they were; and
\* no two scopes have the same collection name.
C22_ScopeIsolation ==
  [][ /\ touched' \subseteq
           {NamedCollection(<<srun'.api_name, srun'.spec_hash>>)}
             \cup NamedFiles(<<srun'.api_name, srun'.spec_hash>>)
      /\ \A sc \in ScopePairs :
           sc # <<srun'.api_name, srun'.spec_hash>> => SameStores(sc, db, fs, db', fs')
      /\ \A s1, s2 \in ScopePairs :
           s1 # s2 => CollectionName(s1[1], s1[2]) # CollectionName(s2[1], s2[2]) ]_vars

\* C22 happens: two calls in two scopes, one named like the other with a
\* fingerprint after it, have ended; each has its collection and its files
C22_Witness ==
  /\ srun.pc = "off"
  /\ sruns = 2
  /\ \A sc \in {<<"pet", "0123456789ab">>, <<"pet_0123456789ab", "0123456789ab">>} :
       /\ RowsIn(db, NamedCollection(sc)) # {}
       /\ NamedFiles(sc) \subseteq DOMAIN fs
  /\ touched # {}


(***************************************************************************)
(* Properties of the chat handler                                          *)
(***************************************************************************)
\* C23: between two calls of handle_chat_input, whatever the calls before did,
\* the memory is user, AI, user, AI, ...: every user message is followed by
\* one AI message, and every AI message follows a user message.
C23_MemoryPairing ==
  cpc = "idle" =>
    /\ Len(memory) % 2 = 0
    /\ \A n \in 1..Len(memory) :
         memory[n].role = IF n % 2 = 1 THEN "user" ELSE "ai"

====
